---- MODULE Spec2Model ----
(***************************************************************************)
(* Model of backend/routes/heart_rate_data.py (NeuroFlow): the rPPG        *)
(* pipeline behind GET /api.  Floating-point values are modelled as exact  *)
(* rationals [k |-> "num", n, d]; np.sqrt of a positive rational is kept   *)
(* symbolic as [k |-> "sqrt", n, d]; NaN and None are their own values.    *)
(* Sequences are 1-based here; every index stored in the state (peaks,     *)
(* slice bounds) is the 0-based Python index.                              *)
(***************************************************************************)
EXTENDS Integers, Sequences, FiniteSets, TLC

VARIABLES
    pc,             \* position in the handler / in the function applied
    opens,          \* number of cv2.VideoCapture(query) constructions
    handles,        \* captures opened by the request and not released
    fps,            \* video_data.get(CAP_PROP_FPS)
    frame_count,    \* int(video_data.get(CAP_PROP_FRAME_COUNT))
    time_bw_frame,  \* 1.0 / fps
    frame_dims,     \* <<len(frame), len(frame[0])>> of the decoded frames
    roi,            \* [rows |-> <<lo, hi>>, cols |-> <<lo, hi>>] sampled, [lo, hi)
    no_of_pixels,   \* pixels averaged per frame
    n_samples,      \* len(R) before trimming
    r_averaged,     \* envelope handed to give_bpm_and_hrv
    r_peaks,        \* r_peaks[0] of give_bpm_and_hrv / peak_indices
    rr_intervals,   \* rr_intervals of give_bpm_and_hrv / of calculate_hrv
    nk_call,        \* the call made to nk.hrv, or NoCall
    nk_result,      \* what nk.hrv did: NoCall, raise, absent or present
    ret,            \* outcome of the function applied (return or raise)
    response        \* what leaves get_beats_per_min

vars == <<pc, opens, handles, fps, frame_count, time_bw_frame, frame_dims, roi,
          no_of_pixels, n_samples, r_averaged, r_peaks, rr_intervals, nk_call,
          nk_result, ret, response>>

---------------------------------------------------------------------------
(* Bounds of the model *)

\* longest envelope drawn as an input of give_bpm_and_hrv
MaxEnv == 7
\* longest RR series drawn as an input of calculate_hrv
MaxLen == 5
\* largest peak index drawn as an input of calculate_stress_score
MaxIdx == 6
\* RR inputs are 800 ms + 25 ms * (0..MaxStep)
MaxStep == 3
\* frames are up to WINDOW + MaxExtra pixels wide and high
MaxExtra == 1
\* longest envelope pattern drawn inside a whole request
MaxPat == 4

(* Program constants *)
WINDOW == 100
TRIM == 100
r_order_of_bandpass == 5
r_cutoff_high == 10
r_cutoff_low == 100
r_average_filter_sample_length == 7

---------------------------------------------------------------------------
(* Numbers *)

Abs(x) == IF x < 0 THEN -x ELSE x
Max(a, b) == IF a >= b THEN a ELSE b
Min(a, b) == IF a <= b THEN a ELSE b

RECURSIVE GCD(_, _)
GCD(a, b) == IF b = 0 THEN a ELSE GCD(b, a % b)

\* the rational n/d in lowest terms with a positive denominator (d # 0)
Rat(n, d) ==
    LET g == GCD(Abs(n), Abs(d))
        s == IF d < 0 THEN -1 ELSE 1
    IN  [k |-> "num", n |-> (s * n) \div g, d |-> (s * d) \div g]

Num(i) == Rat(i, 1)
NaN == [k |-> "nan"]
None == [k |-> "none"]

RAdd(a, b) == Rat(a.n * b.d + b.n * a.d, a.d * b.d)
RSub(a, b) == Rat(a.n * b.d - b.n * a.d, a.d * b.d)
RMul(a, b) == Rat(a.n * b.n, a.d * b.d)
RDiv(a, b) == Rat(a.n * b.d, a.d * b.n)
RAbs(a) == Rat(Abs(a.n), a.d)
RLt(a, b) == a.n * b.d < b.n * a.d
RLe(a, b) == a.n * b.d <= b.n * a.d

\* Python int(): truncation toward zero of the rational n/d, d > 0
PyInt(n, d) == IF n >= 0 THEN n \div d ELSE -((-n) \div d)

RECURSIVE RSum(_)
RSum(s) == IF s = <<>> THEN Num(0) ELSE RAdd(Head(s), RSum(Tail(s)))

\* np.mean: NaN (0/0 in floating point) on an empty array
np_mean(s) == IF s = <<>> THEN NaN ELSE RDiv(RSum(s), Num(Len(s)))

\* np.sqrt of a number or NaN
np_sqrt(v) ==
    IF v.k = "nan" THEN NaN
    ELSE IF v.n < 0 THEN NaN
    ELSE IF v.n = 0 THEN Num(0)
    ELSE [k |-> "sqrt", n |-> v.n, d |-> v.d]

\* np.diff: successive differences, one element shorter
np_diff(s) == [i \in 1..Max(Len(s) - 1, 0) |-> RSub(s[i + 1], s[i])]

\* np.std: population standard deviation, NaN on an empty array
np_std(s) ==
    IF s = <<>> THEN NaN
    ELSE LET m == np_mean(s)
             dev == [i \in 1..Len(s) |-> RMul(RSub(s[i], m), RSub(s[i], m))]
         IN  np_sqrt(np_mean(dev))

---------------------------------------------------------------------------
(* calculate_hrv *)

Return(v) == [kind |-> "return", value |-> v]
Raise(e) == [kind |-> "raise", exc |-> e]

rr_intervals_ms(rr) == [i \in 1..Len(rr) |-> RMul(rr[i], Num(1000))]

RECURSIVE CountTrue(_)
CountTrue(s) == IF s = <<>> THEN 0 ELSE (IF Head(s) THEN 1 ELSE 0) + CountTrue(Tail(s))

\* sum(np.abs(np.diff(rr_intervals_ms)) > 50)
nn50_of(ms) ==
    LET d == np_diff(ms)
    IN  CountTrue([i \in 1..Len(d) |-> RLt(Num(50), RAbs(d[i]))])

\* (nn50 / len(rr_intervals_ms)) * 100, len > 0
pnn50_of_mut(nn50, len) == RMul(Rat(nn50, Max(len - 1, 1)), Num(100))

pnn50_of(nn50, len) == RMul(Rat(nn50, len), Num(100))

rmssd_of(ms) ==
    LET d == np_diff(ms)
    IN  np_sqrt(np_mean([i \in 1..Len(d) |-> RMul(d[i], d[i])]))

calculate_hrv(rr) ==
    LET ms == rr_intervals_ms(rr)
        sdnn == np_std(ms)
        rmssd == rmssd_of(ms)
        nn50 == nn50_of(ms)
    IN  IF Len(ms) = 0
        THEN Raise("ZeroDivisionError")
        ELSE Return([SDNN |-> sdnn, RMSSD |-> rmssd, pNN50 |-> pnn50_of(nn50, Len(ms))])

---------------------------------------------------------------------------
(* scipy.signal.find_peaks(averaged, height=r_min_peak) *)

\* x[i] for the 0-based index i
At(x, i) == x[i + 1]

RECURSIVE SeqMin(_)
SeqMin(s) == IF Len(s) = 1 THEN s[1] ELSE Min(Head(s), SeqMin(Tail(s)))

RECURSIVE SeqMax(_)
SeqMax(s) == IF Len(s) = 1 THEN s[1] ELSE Max(Head(s), SeqMax(Tail(s)))

\* min(averaged) + (max(averaged) - min(averaged)) / 16
r_min_peak(averaged) ==
    RAdd(Num(SeqMin(averaged)), Rat(SeqMax(averaged) - SeqMin(averaged), 16))

\* the inner loop of _local_maxima_1d: skip the samples equal to x[i]
RECURSIVE Ahead(_, _, _)
Ahead(x, i, i_ahead) ==
    IF i_ahead < Len(x) - 1 /\ At(x, i_ahead) = At(x, i)
    THEN Ahead(x, i, i_ahead + 1)
    ELSE i_ahead

\* the outer loop of _local_maxima_1d from index i: midpoints of the maxima
RECURSIVE LocalMaximaFrom(_, _)
LocalMaximaFrom(x, i) ==
    IF i >= Len(x) - 1 THEN <<>>
    ELSE IF At(x, i - 1) < At(x, i)
         THEN LET i_ahead == Ahead(x, i, i + 1)
              IN  IF At(x, i_ahead) < At(x, i)
                  THEN <<(i + (i_ahead - 1)) \div 2>> \o LocalMaximaFrom(x, i_ahead + 1)
                  ELSE LocalMaximaFrom(x, i + 1)
         ELSE LocalMaximaFrom(x, i + 1)

local_maxima(x) == LocalMaximaFrom(x, 1)

\* peak_heights >= hmin
height_ok_mut(x, p, height) == RLt(height, Num(At(x, p)))

height_ok(x, p, height) == RLe(height, Num(At(x, p)))

find_peaks(x, height) ==
    SelectSeq(local_maxima(x), LAMBDA p : height_ok(x, p, height))

---------------------------------------------------------------------------
(* calculate_stress_score *)

NoCall == [kind |-> "none"]
NkRaise == [kind |-> "raise"]
NkAbsent == [kind |-> "absent"]
NkPresent(v) == [kind |-> "present", value |-> v]
NkOutcomes == {NkRaise, NkAbsent, NkPresent(Num(3)), NkPresent(Num(12))}

Last(s) == s[Len(s)]
Elems(s) == {s[i] : i \in 1..Len(s)}

\* np.zeros(peak_indices[-1] + 1); binary_peaks[peak_indices] = 1
binary_peaks_mut(peak_indices) ==
    [i \in 1..Last(peak_indices) |-> IF (i - 1) \in Elems(peak_indices) THEN 1 ELSE 0]

binary_peaks_of(peak_indices) ==
    [i \in 1..(Last(peak_indices) + 1) |-> IF (i - 1) \in Elems(peak_indices) THEN 1 ELSE 0]

\* hrv_metrics.get("HRV_SI", None)
stress_index(nk) == IF nk.kind = "present" THEN nk.value ELSE None

\* the locals of calculate_stress_score when nk.hrv behaves as nk
calculate_stress_score(peak_indices, sampling_rate, nk) ==
    IF peak_indices = <<>>
    THEN [ret |-> Raise("IndexError"), nk_call |-> NoCall, nk_result |-> NoCall]
    ELSE LET call == [binary_peaks |-> binary_peaks_of(peak_indices),
                      sampling_rate |-> sampling_rate]
         IN  [ret |-> IF nk.kind = "raise" THEN Raise("NkError")
                      ELSE Return(stress_index(nk)),
              nk_call |-> call,
              nk_result |-> nk]

---------------------------------------------------------------------------
(* give_bpm_and_hrv *)

Zeroed ==
    [BPM |-> Num(0),
     HRV |-> [SDNN |-> Num(0), RMSSD |-> Num(0), pNN50 |-> Num(0)],
     Stress_Score |-> None]

\* if total_peaks <= 1
insufficient_peaks_mut(total_peaks) == total_peaks < 1

insufficient_peaks(total_peaks) == total_peaks <= 1

\* [(r_peaks[0][i + 1] - r_peaks[0][i]) * time_bw_fram for i in range(total_peaks - 1)]
rr_of_mut(peaks, time_bw_fram) ==
    [i \in 1..(Len(peaks) - 1) |-> RMul(Num(peaks[i] - peaks[i + 1]), time_bw_fram)]

rr_of(peaks, time_bw_fram) ==
    [i \in 1..(Len(peaks) - 1) |-> RMul(Num(peaks[i + 1] - peaks[i]), time_bw_fram)]

\* float(60.0 / avg_time_bw_peaks); numpy division by zero gives inf or nan
bpm_of(rr) ==
    LET avg == np_mean(rr)
    IN  IF avg.k = "nan" THEN NaN
        ELSE IF avg.n = 0 THEN [k |-> "inf"]
        ELSE RDiv(Num(60), avg)

\* the locals of give_bpm_and_hrv when nk.hrv behaves as nk
give_bpm_and_hrv(averaged, time_bw_fram, nk) ==
    IF averaged = <<>>
    THEN [ret |-> Raise("ValueError"), r_peaks |-> <<>>, total_peaks |-> -1,
          rr_intervals |-> <<>>, nk_call |-> NoCall, nk_result |-> NoCall]
    ELSE
    LET peaks == find_peaks(averaged, r_min_peak(averaged))
        total_peaks == Len(peaks)
    IN  IF insufficient_peaks(total_peaks)
        THEN [ret |-> Return(Zeroed), r_peaks |-> peaks, total_peaks |-> total_peaks,
              rr_intervals |-> <<>>, nk_call |-> NoCall, nk_result |-> NoCall]
        ELSE
        LET rr == rr_of(peaks, time_bw_fram)
            bpm == bpm_of(rr)
            hrv == calculate_hrv(rr)
            sampling_rate == PyInt(time_bw_fram.d, time_bw_fram.n)
            stress == calculate_stress_score(peaks, sampling_rate, nk)
        IN  IF hrv.kind = "raise"
            THEN [ret |-> hrv, r_peaks |-> peaks, total_peaks |-> total_peaks,
                  rr_intervals |-> rr, nk_call |-> NoCall, nk_result |-> NoCall]
            ELSE [ret |-> IF stress.ret.kind = "raise" THEN stress.ret
                          ELSE Return([BPM |-> bpm, HRV |-> hrv.value,
                                       Stress_Score |-> stress.ret.value]),
                  r_peaks |-> peaks, total_peaks |-> total_peaks,
                  rr_intervals |-> rr,
                  nk_call |-> stress.nk_call, nk_result |-> stress.nk_result]

---------------------------------------------------------------------------
(* get_beats_per_min: helpers *)

\* Python s[a:b] on a sequence of length len: the 0-based bounds <<lo, hi>>, [lo, hi)
PySliceIndex(i, len) == IF i < 0 THEN Max(i + len, 0) ELSE Min(i, len)

PySlice(len, a, b) ==
    LET lo == PySliceIndex(a, len)
        hi == PySliceIndex(b, len)
    IN  <<lo, Max(lo, hi)>>

SliceLen(sl) == sl[2] - sl[1]

\* frame[int((len(frame) - 100) / 2): int((len(frame) + 100) / 2)]
window_slice(size) == PySlice(size, PyInt(size - WINDOW, 2), PyInt(size + WINDOW, 2))

\* R[100:-100]
trimmed_len(n) == SliceLen(PySlice(n, TRIM, -TRIM))

\* butter(order, cutoff / (0.5 * fs)): rejects a critical frequency outside (0, 1)
butter_ok(cutoff, fs) == 0 < 2 * cutoff /\ 2 * cutoff < fs

\* filtfilt(b, a, x): rejects len(x) <= padlen = 3 * max(len(a), len(b))
filtfilt_ok(ntaps, len) == len > 3 * ntaps

\* process_signal on len samples: "ok", or the exception it raises
process_signal(len, order, high, low, sampling_rate, average_len) ==
    IF sampling_rate = 0 THEN Raise("ZeroDivisionError")
    ELSE IF ~butter_ok(high, sampling_rate) THEN Raise("ValueError")
    ELSE IF ~filtfilt_ok(order + 1, len) THEN Raise("ValueError")
    ELSE IF ~butter_ok(low, sampling_rate) THEN Raise("ValueError")
    ELSE IF ~filtfilt_ok(average_len, len) THEN Raise("ValueError")
    ELSE Return("averaged_signal")

Error(msg) == [kind |-> "error", error |-> msg]
Escaped(exc) == [kind |-> "exception", exc |-> exc]
Success(r_avg, b) ==
    [kind |-> "success", r_avg |-> r_avg, BPM |-> b.BPM, HRV |-> b.HRV,
     Stress_Score |-> b.Stress_Score]
Pending == [kind |-> "pending"]

---------------------------------------------------------------------------
(* Inputs *)

RECURSIVE SeqsUpTo(_, _)
SeqsUpTo(S, n) ==
    IF n = 0 THEN {<<>>}
    ELSE LET shorter == SeqsUpTo(S, n - 1)
         IN  shorter \cup {Append(s, v) : s \in {t \in shorter : Len(t) = n - 1}, v \in S}

\* envelope samples: with minimum 0 and maximum 32 the threshold is 2, so 1 lies
\* below it and 2 exactly on it
EnvValues == {0, 1, 2, 32}
Envelopes == SeqsUpTo(EnvValues, MaxEnv)
Intervals == {Rat(1, 25), Rat(1, 30)}
RRValues == {Rat(800 + 25 * j, 1000) : j \in 0..MaxStep}
RRInputs == SeqsUpTo(RRValues, MaxLen)

\* strictly increasing index sequences over 0..MaxIdx
RECURSIVE SortedSeq(_)
SortedSeq(S) ==
    IF S = {} THEN <<>>
    ELSE LET m == CHOOSE x \in S : \A y \in S : x <= y
         IN  <<m>> \o SortedSeq(S \ {m})
PeakSets == {SortedSeq(S) : S \in SUBSET (0..MaxIdx)}

FpsValues == {0, 2, 24, 25}
FrameCounts ==
    {0, TRIM + 50, 2 * TRIM + 18, 2 * TRIM + 19, 2 * TRIM + 21}
        \cup ((2 * TRIM + 22)..(2 * TRIM + 22 + MaxExtra))
FrameSizes == {50, WINDOW - 2, WINDOW - 1} \cup (WINDOW..(WINDOW + MaxExtra))
Patterns == {p \in SeqsUpTo(EnvValues, MaxPat) : Len(p) = MaxPat}

\* an envelope of length len that starts with the pattern p and is 0 after it
Padded(p, len) == [i \in 1..len |-> IF i <= Len(p) THEN p[i] ELSE 0]

---------------------------------------------------------------------------
(* State machine *)

Idle(at) ==
    /\ pc = at
    /\ opens = 0
    /\ handles = 0
    /\ fps = 0
    /\ frame_count = 0
    /\ frame_dims = <<0, 0>>
    /\ roi = [rows |-> <<0, 0>>, cols |-> <<0, 0>>]
    /\ no_of_pixels = 0
    /\ n_samples = 0
    /\ nk_call = NoCall
    /\ nk_result = NoCall
    /\ ret = NoCall
    /\ response = Pending

\* a request arrives at get_beats_per_min
Init ==
    /\ Idle("validate")
    /\ time_bw_frame = None
    /\ r_averaged = <<>>
    /\ r_peaks = <<>>
    /\ rr_intervals = <<>>

\* if not cv2.VideoCapture(query).isOpened(): return {"error": ...}
\* The capture built for this test is bound to no name and release() is never
\* called on it; handles counts the captures opened and not released by the code.
Validate ==
    /\ pc = "validate"
    /\ opens' = opens + 1
    /\ \E isOpened \in BOOLEAN :
         IF isOpened
         THEN /\ handles' = handles + 1
              /\ pc' = "open"
              /\ UNCHANGED response
         ELSE /\ response' = Error("Video file could not be opened. Please check the path.")
              /\ pc' = "done"
              /\ UNCHANGED handles
    /\ UNCHANGED <<fps, frame_count, time_bw_frame, frame_dims, roi, no_of_pixels,
                   n_samples, r_averaged, r_peaks, rr_intervals, nk_call, nk_result, ret>>

\* video_data = cv2.VideoCapture(query) ... time_bw_frame = 1.0 / fps
Open ==
    /\ pc = "open"
    /\ opens' = opens + 1
    /\ handles' = handles + 1
    /\ \E f \in FpsValues, c \in FrameCounts :
         /\ fps' = f
         /\ frame_count' = c
         /\ IF c = 0
            THEN /\ response' = Error("Video contains no frames.")
                 /\ pc' = "done"
                 /\ UNCHANGED time_bw_frame
            ELSE IF f = 0
            THEN /\ response' = Escaped("ZeroDivisionError")
                 /\ pc' = "done"
                 /\ UNCHANGED time_bw_frame
            ELSE /\ time_bw_frame' = Rat(1, f)
                 /\ pc' = "read"
                 /\ UNCHANGED response
    /\ UNCHANGED <<frame_dims, roi, no_of_pixels, n_samples, r_averaged, r_peaks,
                   rr_intervals, nk_call, nk_result, ret>>

\* the while True loop over video_data.read(): n frames of h x w pixels
ReadFrames ==
    /\ pc = "read"
    /\ \E n \in {m \in FrameCounts : m <= frame_count}, h \in FrameSizes, w \in FrameSizes :
         /\ n_samples' = n
         /\ IF n = 0
            THEN /\ pc' = "process"
                 /\ UNCHANGED <<frame_dims, roi, no_of_pixels, response>>
            ELSE LET rows == window_slice(h)
                     cols == window_slice(w)
                     pixels == SliceLen(rows) * SliceLen(cols)
                 IN  /\ frame_dims' = <<h, w>>
                     /\ roi' = [rows |-> rows, cols |-> cols]
                     /\ no_of_pixels' = pixels
                     /\ IF pixels = 0
                        THEN /\ response' = Escaped("ZeroDivisionError")
                             /\ pc' = "done"
                        ELSE /\ pc' = "process"
                             /\ UNCHANGED response
    /\ UNCHANGED <<opens, handles, fps, frame_count, time_bw_frame, r_averaged,
                   r_peaks, rr_intervals, nk_call, nk_result, ret>>

\* R = R[100:-100]; r_averaged = process_signal(R, 5, 10, 100, 8 * int(fps + 1), 7)
Process ==
    /\ pc = "process"
    /\ LET len == trimmed_len(n_samples)
           r_sampling_rate == 8 * PyInt(fps + 1, 1)
           out == process_signal(len, r_order_of_bandpass, r_cutoff_high, r_cutoff_low,
                                 r_sampling_rate, r_average_filter_sample_length)
       IN  IF out.kind = "raise"
           THEN /\ response' = Escaped(out.exc)
                /\ pc' = "done"
                /\ UNCHANGED r_averaged
           ELSE /\ \E p \in Patterns : r_averaged' = Padded(p, len)
                /\ pc' = "analyze"
                /\ UNCHANGED response
    /\ UNCHANGED <<opens, handles, fps, frame_count, time_bw_frame, frame_dims, roi,
                   no_of_pixels, n_samples, r_peaks, rr_intervals, nk_call, nk_result, ret>>

\* the locals of give_bpm_and_hrv become state
Applied(g) ==
    /\ r_peaks' = g.r_peaks
    /\ rr_intervals' = g.rr_intervals
    /\ nk_call' = g.nk_call
    /\ nk_result' = g.nk_result
    /\ ret' = g.ret

\* bpm_and_hrv = give_bpm_and_hrv(r_averaged, time_bw_frame); return result
Analyze ==
    /\ pc = "analyze"
    /\ \E nk \in NkOutcomes :
         LET g == give_bpm_and_hrv(r_averaged, time_bw_frame, nk)
         IN  /\ Applied(g)
             /\ response' = IF g.ret.kind = "raise" THEN Escaped(g.ret.exc)
                            ELSE Success(r_averaged, g.ret.value)
    /\ pc' = "done"
    /\ UNCHANGED <<opens, handles, fps, frame_count, time_bw_frame, frame_dims, roi,
                   no_of_pixels, n_samples, r_averaged>>

Next == Validate \/ Open \/ ReadFrames \/ Process \/ Analyze

Spec == Init /\ [][Next]_vars

---------------------------------------------------------------------------
(* give_bpm_and_hrv applied to every small envelope *)

InitPeaks ==
    /\ Idle("give_bpm_and_hrv")
    /\ time_bw_frame \in Intervals
    /\ r_averaged \in Envelopes
    /\ r_peaks = <<>>
    /\ rr_intervals = <<>>

CallGiveBpmAndHrv ==
    /\ pc = "give_bpm_and_hrv"
    /\ \E nk \in NkOutcomes :
         Applied(give_bpm_and_hrv(r_averaged, time_bw_frame, nk))
    /\ pc' = "returned"
    /\ UNCHANGED <<opens, handles, fps, frame_count, time_bw_frame, frame_dims, roi,
                   no_of_pixels, n_samples, r_averaged, response>>

NextPeaks == CallGiveBpmAndHrv

SpecPeaks == InitPeaks /\ [][NextPeaks]_vars

---------------------------------------------------------------------------
(* calculate_hrv applied to every small RR series *)

InitHrv ==
    /\ Idle("calculate_hrv")
    /\ time_bw_frame = None
    /\ r_averaged = <<>>
    /\ r_peaks = <<>>
    /\ rr_intervals \in RRInputs

CallCalculateHrv ==
    /\ pc = "calculate_hrv"
    /\ ret' = calculate_hrv(rr_intervals)
    /\ pc' = "returned"
    /\ UNCHANGED <<opens, handles, fps, frame_count, time_bw_frame, frame_dims, roi,
                   no_of_pixels, n_samples, r_averaged, r_peaks, rr_intervals, nk_call,
                   nk_result, response>>

NextHrv == CallCalculateHrv

SpecHrv == InitHrv /\ [][NextHrv]_vars

---------------------------------------------------------------------------
(* calculate_stress_score applied to every small PeakSet *)

InitStress ==
    /\ Idle("calculate_stress_score")
    /\ time_bw_frame = None
    /\ r_averaged = <<>>
    /\ r_peaks \in PeakSets
    /\ rr_intervals = <<>>

CallCalculateStressScore ==
    /\ pc = "calculate_stress_score"
    /\ \E nk \in NkOutcomes, sampling_rate \in {25, 30} :
         LET c == calculate_stress_score(r_peaks, sampling_rate, nk)
         IN  /\ nk_call' = c.nk_call
             /\ nk_result' = c.nk_result
             /\ ret' = c.ret
    /\ pc' = "returned"
    /\ UNCHANGED <<opens, handles, fps, frame_count, time_bw_frame, frame_dims, roi,
                   no_of_pixels, n_samples, r_averaged, r_peaks, rr_intervals, response>>

NextStress == CallCalculateStressScore

SpecStress == InitStress /\ [][NextStress]_vars

---------------------------------------------------------------------------
(* Claims *)

Returned == pc = "returned"

\* the threshold of give_bpm_and_hrv as 16 * x >= 16 * min + (max - min)
AtLeastThreshold(x, v) ==
    LET lo == CHOOSE a \in Elems(x) : \A b \in Elems(x) : a <= b
        hi == CHOOSE a \in Elems(x) : \A b \in Elems(x) : a >= b
    IN  16 * v >= 16 * lo + (hi - lo)

\* C1: when find_peaks yields 0 or 1 peaks, give_bpm_and_hrv returns exactly the
\* zeroed result, computes no RR interval and does not call nk.hrv; with 2 or
\* more peaks it does not return the zeroed result.
C1_DegenerateResult ==
    (Returned /\ r_averaged # <<>>) =>
        /\ Len(r_peaks) < 2 =>
              /\ ret = Return(Zeroed)
              /\ rr_intervals = <<>>
              /\ nk_call = NoCall
        /\ Len(r_peaks) >= 2 => ret # Return(Zeroed)

C1_Witness ==
    /\ Returned
    /\ Len(r_averaged) >= 3
    /\ Len(r_peaks) = 1
    /\ ret = Return(Zeroed)

\* C2: every request ends as a success Result or as a structured {error}
\* response; no exception leaves get_beats_per_min.
C2_NoEscapingException ==
    pc = "done" => response.kind \in {"success", "error"}

\* C3: when nk.hrv raises or returns no HRV_SI, the request still ends as a
\* success Result whose Stress_Score is null.
C3_StressFailureRecovered ==
    (pc = "done" /\ nk_result.kind \in {"raise", "absent"}) =>
        /\ response.kind = "success"
        /\ response.Stress_Score = None

\* C4: calculate_hrv returns SDNN = RMSSD = pNN50 = 0 for every RR series with
\* fewer than 2 elements.
C4_ShortSeriesZero ==
    (Returned /\ Len(rr_intervals) < 2) =>
        ret = Return([SDNN |-> Num(0), RMSSD |-> Num(0), pNN50 |-> Num(0)])

\* i is a strict local maximum of x (0-based, never the first or last sample)
StrictLocalMax(x, i) ==
    /\ 0 < i
    /\ i < Len(x) - 1
    /\ At(x, i - 1) < At(x, i)
    /\ At(x, i + 1) < At(x, i)

\* C5 as stated: the peaks are exactly the strict local maxima that reach the
\* threshold min + (max - min) / 16.
C5_StrictLocalMaxima ==
    (Returned /\ r_averaged # <<>>) =>
        Elems(r_peaks) =
            {i \in 0..(Len(r_averaged) - 1) :
                StrictLocalMax(r_averaged, i) /\ AtLeastThreshold(r_averaged, At(r_averaged, i))}

\* samples l..r of x are a run of equal samples with a strictly lower sample
\* right before and right after it
RaisedRun(x, l, r) ==
    /\ 0 < l
    /\ l <= r
    /\ r < Len(x) - 1
    /\ \A j \in l..r : At(x, j) = At(x, l)
    /\ At(x, l - 1) < At(x, l)
    /\ At(x, r + 1) < At(x, r)

\* C5 as amended: the peaks are exactly the midpoints (rounded down) of the
\* runs of equal samples that are strictly higher than the sample before and
\* the sample after the run, and that reach the threshold min + (max - min) / 16;
\* a strict local maximum is the run of length 1.
C5_RunMidpoints ==
    (Returned /\ r_averaged # <<>>) =>
        Elems(r_peaks) =
            {i \in 0..(Len(r_averaged) - 1) :
                /\ \E l \in 0..i, r \in i..(Len(r_averaged) - 1) :
                      RaisedRun(r_averaged, l, r) /\ i = (l + r) \div 2
                /\ AtLeastThreshold(r_averaged, At(r_averaged, i))}

\* a strict local maximum exactly on the threshold is reported, and so is the
\* middle sample of a plateau
C5_Witness ==
    /\ Returned
    /\ Len(r_averaged) >= 3
    /\ \E p \in Elems(r_peaks) :
          /\ StrictLocalMax(r_averaged, p)
          /\ 16 * At(r_averaged, p) = 16 * SeqMin(r_averaged)
                                        + (SeqMax(r_averaged) - SeqMin(r_averaged))
    /\ \E p \in Elems(r_peaks) : At(r_averaged, p + 1) = At(r_averaged, p)

\* |1000 * (b - a)| > 50 for RR intervals a, b in seconds
Over50ms(a, b) == 1000 * Abs(b.n * a.d - a.n * b.d) > 50 * a.d * b.d

NonNegative(v) == v.k \in {"num", "sqrt"} /\ v.n >= 0

\* C6: for N >= 2 RR intervals, pNN50 = 100 * (number of successive differences
\* over 50 ms) / N, it lies in [0, 100], and SDNN and RMSSD are non-negative.
C6_Pnn50 ==
    (Returned /\ Len(rr_intervals) >= 2) =>
        LET N == Len(rr_intervals)
            over == {i \in 1..(N - 1) : Over50ms(rr_intervals[i], rr_intervals[i + 1])}
        IN  /\ ret.kind = "return"
            /\ ret.value.pNN50.k = "num"
            /\ ret.value.pNN50.n * N = 100 * Cardinality(over) * ret.value.pNN50.d
            /\ RLe(Num(0), ret.value.pNN50)
            /\ RLe(ret.value.pNN50, Num(100))
            /\ NonNegative(ret.value.SDNN)
            /\ NonNegative(ret.value.RMSSD)

C6_Witness ==
    /\ Returned
    /\ Len(rr_intervals) >= 3
    /\ ret.kind = "return"
    /\ RLt(Num(0), ret.value.pNN50)
    /\ RLt(ret.value.pNN50, Num(50))
    /\ \E i \in 1..(Len(rr_intervals) - 1) :
          RSub(rr_intervals[i + 1], rr_intervals[i]) = Rat(-50, 1000)

\* C7: with 2 or more peaks and a positive frame interval, the peak indices are
\* strictly increasing and inside the envelope, there is one RR interval per
\* pair of successive peaks, RR[i] = (peak[i+1] - peak[i]) * interval, every RR
\* interval is positive and so is the BPM.
C7_PeakOrderAndIntervals ==
    (Returned /\ Len(r_peaks) >= 2 /\ RLt(Num(0), time_bw_frame)) =>
        /\ \A i \in 1..Len(r_peaks) : 0 <= r_peaks[i] /\ r_peaks[i] < Len(r_averaged)
        /\ \A i \in 1..(Len(r_peaks) - 1) : r_peaks[i] < r_peaks[i + 1]
        /\ Len(rr_intervals) = Len(r_peaks) - 1
        /\ \A i \in 1..Len(rr_intervals) :
              /\ rr_intervals[i].n * time_bw_frame.d
                    = (r_peaks[i + 1] - r_peaks[i]) * time_bw_frame.n * rr_intervals[i].d
              /\ rr_intervals[i].n > 0
        /\ ret.kind = "return" => (ret.value.BPM.k = "num" /\ ret.value.BPM.n > 0)

C7_Witness ==
    /\ Returned
    /\ Len(r_peaks) = 3
    /\ Len(rr_intervals) = 2
    /\ ret.kind = "return"

C9_CentredWindow ==
    frame_dims # <<0, 0>> =>
        IF frame_dims[1] >= WINDOW /\ frame_dims[2] >= WINDOW
        THEN /\ SliceLen(roi.rows) = WINDOW
             /\ SliceLen(roi.cols) = WINDOW
             /\ no_of_pixels = WINDOW * WINDOW
             /\ Abs(roi.rows[1] - (frame_dims[1] - roi.rows[2])) <= 1
             /\ Abs(roi.cols[1] - (frame_dims[2] - roi.cols[2])) <= 1
        ELSE pc = "done" /\ response.kind = "error"

\* C10: a request opens the video source once and holds no open capture when
\* it ends.
C10_SingleScopedHandle ==
    pc = "done" => (opens = 1 /\ handles = 0)

====
